---- MODULE Spec2Model ----
(***************************************************************************)
(* The chat session of src/main.py: a Streamlit script that is re-executed *)
(* from top to bottom on every UI event, with st.session_state (messages,  *)
(* agent, example_prompt) surviving between runs.                          *)
(*                                                                         *)
(* Text is modelled as a sequence of characters; the empty sequence is the *)
(* falsy value (None or "") of the chat input; a long literal is kept as   *)
(* one element.  API keys are only tested for emptiness and equality and   *)
(* are modelled as TLA+ strings.                                           *)
(***************************************************************************)
EXTENDS Integers, Sequences, FiniteSets, TLC

(* ------------------------------ bounds -------------------------------- *)

\* Runs are started only while every message they may append still fits.
MaxMessages == 4
\* Runs are started only while fewer than MaxBuilds constructions were made.
MaxBuilds == 2
\* Example buttons are clicked only while fewer than MaxClicks clicks were made.
MaxClicks == 2
\* The prompt files checked hold at most MaxFileLen characters.
MaxFileLen == 4

(* ------------------------------ inputs -------------------------------- *)

\* Non-empty API key values (environment variable or text input).
Keys == {"k1", "k2"}
\* Texts the user may submit through st.chat_input.
Prompts == {<<"a">>, <<"b">>}
\* response.content of a successful agent.run.
Responses == {<<"r">>}
\* str(e) of an exception raised by agent.run.
Errors == {<<>>, <<"t">>}

(* ------------------------------ values -------------------------------- *)

\* st.session_state.agent = None
None == [none |-> TRUE]
\* No text: st.chat_input returned None, no button was clicked, or the key
\* "example_prompt" is not in st.session_state (stored prompts are never
\* empty: load_example_prompts keeps only non-empty lines).
Absent == <<>>

\* The literal of line 125; "!" stands for the warning sign U+26A0 U+FE0F.
MissingKeyWarning ==
    <<"!", " ", "Please enter your OpenAI API key in the sidebar to start chatting.">>

\* No agent.run call was made, or it has not ended yet.
NoResult == [kind |-> "none", text |-> <<>>]

\* The literal of line 139; "X" stands for the cross-mark character U+274C.
ErrorPrefix == <<"X", " ", "E", "r", "r", "o", "r", ":", " ">>

\* {"role": "user", "content": prompt}
UserMessage(p) == [role |-> "user", content |-> p]
\* {"role": "assistant", "content": c}
AssistantMessage(c) == [role |-> "assistant", content |-> c]

\* Mutant of ErrorMsg: the exception text without the prefix.
ErrorMsgBare(e) == e

\* error_msg = f"<cross mark> Error: {str(e)}"
ErrorMsg(e) == ErrorPrefix \o e

\* Mutant of AppendMessage: the new message is put in front.
PrependMessage(msgs, m) == <<m>> \o msgs

\* st.session_state.messages.append(m)
AppendMessage(msgs, m) == Append(msgs, m)

\* api_key = env_api_key if env_api_key else st.text_input(...)
ApiKey(env, input) == IF env # "" THEN env ELSE input

\* Agent(model=OpenAIChat(id="gpt-4o", api_key=api_key), ...): a new object,
\* told apart from every other handle by id.
NewAgent(key, n) == [api_key |-> key, id |-> n]

\* Mutant of NeedsBuild: the key of the held handle is not compared.
NeedsBuildAlways(ag, key) == TRUE

\* Mutant of NeedsBuild: a handle, once built, is kept whatever the key.
NeedsBuildWhenNone(ag, key) == ag = None

\* st.session_state.agent is None or st.session_state.agent.model.api_key != api_key
NeedsBuild(ag, key) == IF ag = None THEN TRUE ELSE ag.api_key # key

\* Mutant of AgentMissing: the None check of line 123 is left out.
AgentMissingNever(ag) == FALSE

\* st.session_state.agent is None
AgentMissing(ag) == ag = None

(* --------------------------- prompt loader ---------------------------- *)

\* Characters of the prompt files that are checked.
Chars == {"a", "#", " ", "\n", "\r"}

\* Path.exists() false: the file is not there.
Missing == [exists |-> FALSE, text |-> <<>>]

\* A file that exists, with the characters it holds.
File(text) == [exists |-> TRUE, text |-> text]

\* Characters str.strip() removes (of those written here).
Whitespace == {" ", "\t", "\n", "\r", "\f"}

\* Characters str.splitlines() breaks at (of those written here).
LineBreaks == {"\n", "\r"}

\* Path.read_text(encoding="utf-8"): the file is opened in text mode with
\* universal newlines, so "\r\n" and a lone "\r" are read as "\n".
RECURSIVE ReadText(_)
ReadText(t) ==
    IF t = <<>> THEN <<>>
    ELSE IF Head(t) = "\r"
         THEN IF Len(t) >= 2 /\ t[2] = "\n"
              THEN <<"\n">> \o ReadText(SubSeq(t, 3, Len(t)))
              ELSE <<"\n">> \o ReadText(Tail(t))
         ELSE <<Head(t)>> \o ReadText(Tail(t))

\* str.splitlines(): the lines without their line breaks; "\r\n" is one
\* break, and a break at the end opens no further line.  cur is the line
\* being read, open whether a line is being read.
RECURSIVE SplitFrom(_, _, _)
SplitFrom(t, cur, open) ==
    IF t = <<>> THEN (IF open THEN <<cur>> ELSE <<>>)
    ELSE IF Head(t) \in LineBreaks
         THEN <<cur>> \o SplitFrom(IF Head(t) = "\r" /\ Len(t) >= 2 /\ t[2] = "\n"
                                   THEN SubSeq(t, 3, Len(t)) ELSE Tail(t),
                                   <<>>, FALSE)
         ELSE SplitFrom(Tail(t), Append(cur, Head(t)), TRUE)

SplitLines(t) == SplitFrom(t, <<>>, FALSE)

\* str.lstrip() and str.rstrip().
RECURSIVE LStrip(_)
LStrip(t) ==
    IF t # <<>> /\ Head(t) \in Whitespace THEN LStrip(Tail(t)) ELSE t

RECURSIVE RStrip(_)
RStrip(t) ==
    IF t # <<>> /\ t[Len(t)] \in Whitespace
    THEN RStrip(SubSeq(t, 1, Len(t) - 1)) ELSE t

\* ln.strip()
Strip(t) == RStrip(LStrip(t))

\* ln.startswith(p)
StartsWith(t, p) == Len(t) >= Len(p) /\ SubSeq(t, 1, Len(p)) = p

\* The list returned at lines 30-34; each literal is kept as one element.
FallbackPrompts ==
    << <<"Tell me about a breaking news story happening in Times Square.">>,
       <<"What's the latest development in NYC's tech scene?">>,
       <<"Tell me about any upcoming events at Madison Square Garden">> >>

\* The literal of line 22.
FallbackSystemPrompt == <<"You are a helpful AI assistant.">>

\* Mutant of KeepLine: the comment test looks at the line before strip().
KeepLineRaw(raw) == Strip(raw) # <<>> /\ ~StartsWith(raw, <<"#">>)

\* Line 29 for the line raw: ln = raw.strip(); ln and not ln.startswith("#")
KeepLine(raw) == Strip(raw) # <<>> /\ ~StartsWith(Strip(raw), <<"#">>)

\* Lines 24-34.
load_example_prompts(file) ==
    IF file.exists
    THEN LET raw == SelectSeq(SplitLines(ReadText(file.text)), KeepLine)
         IN  [i \in 1..Len(raw) |-> Strip(raw[i])]
    ELSE FallbackPrompts

\* Mutant of load_system_prompt: the text is stripped.
load_system_prompt_stripped(file) ==
    IF file.exists THEN Strip(ReadText(file.text)) ELSE FallbackSystemPrompt

\* Lines 15-22.
load_system_prompt(file) ==
    IF file.exists THEN ReadText(file.text) ELSE FallbackSystemPrompt

\* The example_prompts.txt of the sessions checked.
ExamplePromptsFile == File(<<"a", "\n", "c", "\n">>)

\* The prompts returned by load_example_prompts() at line 90, one button each.
example_prompts ==
    LET l == load_example_prompts(ExamplePromptsFile)
    IN  {l[i] : i \in 1..Len(l)}

(* ------------------------------- state -------------------------------- *)

VARIABLES
    messages,        \* st.session_state.messages
    agent,           \* st.session_state.agent
    example_prompt,  \* st.session_state.example_prompt (Absent: key not set)
    env_api_key,     \* os.getenv("OPENAI_API_KEY", "")
    pc,              \* position of the script: new before the first run,
                     \* idle between runs
    text_input,      \* value of the sidebar text input in this run
    clicked,         \* example button clicked in this run (Absent: none)
    typed,           \* value st.chat_input returns in this run
    prompt,          \* the script's local variable prompt
    builds,          \* number of agent constructions attempted so far
    build,           \* this run's construction: "none", "ok" or "failed"
    run_calls,       \* agent.run calls of this run: <<[handle, prompt]>>
    warning_shown,   \* the missing-key st.error of line 125 shown in this run
    took,            \* example prompt consumed by this run (Absent: none)
    run_start,       \* messages, agent, builds and pending example prompt
                     \* when this run started
    result,          \* outcome of this run's agent.run call
    streak,          \* the consecutive runs that supplied the current api_key
    ever_key,        \* some run so far supplied a non-empty api_key
    ever_built,      \* some construction so far succeeded
    tally,           \* counts over the session: agent.run calls, button
                     \* clicks, example prompts consumed, and clicks that
                     \* replaced a prompt still pending
    prev_failed,     \* the previous run had a construction or a call raise
    system_file,     \* system_prompt.txt
    prompts_file,    \* example_prompts.txt
    system_prompt,   \* what load_system_prompt() returned
    example_list,    \* what load_example_prompts() returned
    loaded           \* the loaders that have been called

session == <<messages, agent, example_prompt, env_api_key>>
locals == <<text_input, clicked, typed, prompt>>
history == <<builds, build, run_calls, warning_shown, took, run_start,
             result, streak, ever_key, ever_built, tally, prev_failed>>
loader == <<system_file, prompts_file, system_prompt, example_list, loaded>>
vars == <<session, pc, locals, history, loader>>

\* The api_key of the current run (lines 53-65).
api_key == ApiKey(env_api_key, text_input)

(* ----------------------------- behaviour ------------------------------ *)

\* Lines 43-46 on the first run of a session; the environment is fixed for
\* the life of the process.
SessionInit ==
    /\ messages = <<>>
    /\ agent = None
    /\ example_prompt = Absent
    /\ env_api_key \in Keys \cup {""}
    /\ pc = "new"
    /\ text_input = ""
    /\ clicked = Absent
    /\ typed = Absent
    /\ prompt = Absent
    /\ builds = 0
    /\ build = "none"
    /\ run_calls = <<>>
    /\ warning_shown = FALSE
    /\ took = Absent
    /\ run_start = [messages |-> <<>>, agent |-> None, builds |-> 0,
                    pending |-> Absent]
    /\ result = NoResult
    /\ streak = [key |-> "", first |-> TRUE, first_ok |-> FALSE, builds |-> 0,
                 handle |-> None]
    /\ ever_key = FALSE
    /\ ever_built = FALSE
    /\ tally = [calls |-> 0, clicks |-> 0, taken |-> 0, lost |-> 0]
    /\ prev_failed = FALSE

\* A session with the prompt files as they are; the loaders' results are
\* followed in LoaderSpec.
Init ==
    /\ SessionInit
    /\ system_file = Missing
    /\ prompts_file = ExamplePromptsFile
    /\ system_prompt = <<>>
    /\ example_list = <<>>
    /\ loaded = {}

\* Messages the run may still append: one for a pending or clicked example,
\* two for a typed prompt.
Room(c, t) ==
    (IF example_prompt # Absent \/ c # Absent THEN 1 ELSE 0)
    + (IF t # Absent THEN 2 ELSE 0)

\* A UI event (or st.rerun) starts a run of the script.  The widget values
\* are inputs of the run: the key typed in the sidebar (the text input is
\* only shown when the environment holds no key), and at most one trigger,
\* a clicked example button or a submitted chat text.
StartRun(k, c, t) ==
    /\ pc \in {"new", "idle"}
    /\ env_api_key # "" => k = ""
    /\ c = Absent \/ t = Absent
    /\ Len(messages) + Room(c, t) <= MaxMessages
    /\ builds < MaxBuilds
    /\ c # Absent => tally.clicks < MaxClicks
    /\ text_input' = k
    /\ clicked' = c
    /\ typed' = t
    /\ prompt' = Absent
    /\ pc' = "sidebar"
    /\ build' = "none"
    /\ run_calls' = <<>>
    /\ warning_shown' = FALSE
    /\ took' = Absent
    /\ run_start' = [messages |-> messages, agent |-> agent, builds |-> builds,
                     pending |-> example_prompt]
    /\ result' = NoResult
    /\ streak' = IF ApiKey(env_api_key, k) = streak.key
                 THEN [streak EXCEPT !.first = FALSE]
                 ELSE [key |-> ApiKey(env_api_key, k), first |-> TRUE,
                       first_ok |-> FALSE, builds |-> 0, handle |-> None]
    /\ ever_key' = (ever_key \/ ApiKey(env_api_key, k) # "")
    /\ prev_failed' = (build = "failed" \/ result.kind = "raised")
    /\ UNCHANGED <<session, builds, ever_built, tally>>
    /\ UNCHANGED loader

\* Mutant of ConfigNoKey: an empty key drops the held handle.
ConfigNoKeyDropsAgent ==
    /\ pc = "sidebar"
    /\ api_key = ""
    /\ agent' = None
    /\ pc' = "buttons"
    /\ UNCHANGED <<messages, example_prompt, env_api_key, locals, history>>
    /\ UNCHANGED loader

\* Line 67 false: st.warning (line 84), the agent is left alone.
ConfigNoKey ==
    /\ pc = "sidebar"
    /\ api_key = ""
    /\ pc' = "buttons"
    /\ UNCHANGED <<session, locals, history>>
    /\ UNCHANGED loader

\* Line 69 false: the held handle carries this key.
ConfigKeep ==
    /\ pc = "sidebar"
    /\ api_key # ""
    /\ ~NeedsBuild(agent, api_key)
    /\ pc' = "buttons"
    /\ UNCHANGED <<session, locals, history>>
    /\ UNCHANGED loader

\* Lines 70-80: the construction succeeds.
ConfigBuildOK ==
    /\ pc = "sidebar"
    /\ api_key # ""
    /\ NeedsBuild(agent, api_key)
    /\ builds' = builds + 1
    /\ agent' = NewAgent(api_key, builds + 1)
    /\ build' = "ok"
    /\ ever_built' = TRUE
    /\ streak' = [streak EXCEPT !.builds = @ + 1,
                                !.first_ok = streak.first,
                                !.handle = IF streak.first
                                           THEN NewAgent(api_key, builds + 1)
                                           ELSE @]
    /\ pc' = "buttons"
    /\ UNCHANGED <<messages, example_prompt, env_api_key, locals, run_calls,
                   warning_shown, took, run_start, result, ever_key, tally,
                   prev_failed>>
    /\ UNCHANGED loader

\* Mutant of ConfigBuildFail: the failed construction drops the held handle.
ConfigBuildFailDropsAgent ==
    /\ pc = "sidebar"
    /\ api_key # ""
    /\ NeedsBuild(agent, api_key)
    /\ builds' = builds + 1
    /\ agent' = None
    /\ build' = "failed"
    /\ streak' = [streak EXCEPT !.builds = @ + 1]
    /\ pc' = "buttons"
    /\ UNCHANGED <<messages, example_prompt, env_api_key, locals, run_calls,
                   warning_shown, took, run_start, result, ever_key,
                   ever_built, tally, prev_failed>>
    /\ UNCHANGED loader

\* Lines 70-82: the construction raises; st.error, the script goes on.
ConfigBuildFail ==
    /\ pc = "sidebar"
    /\ api_key # ""
    /\ NeedsBuild(agent, api_key)
    /\ builds' = builds + 1
    /\ build' = "failed"
    /\ streak' = [streak EXCEPT !.builds = @ + 1]
    /\ pc' = "buttons"
    /\ UNCHANGED <<session, locals, run_calls, warning_shown, took, run_start,
                   result, ever_key, ever_built, tally, prev_failed>>
    /\ UNCHANGED loader

\* Mutant of ButtonClick: st.rerun() is left out, the script goes on.
ButtonClickNoRerun ==
    /\ pc = "buttons"
    /\ clicked # Absent
    /\ example_prompt' = clicked
    /\ tally' = [tally EXCEPT !.clicks = @ + 1,
                              !.lost = IF example_prompt # Absent
                                       THEN @ + 1 ELSE @]
    /\ pc' = "example"
    /\ UNCHANGED <<messages, agent, env_api_key, locals, builds, build,
                   run_calls, warning_shown, took, run_start, result, streak,
                   ever_key, ever_built, prev_failed>>
    /\ UNCHANGED loader

\* Lines 92-95 with a button clicked: the prompt is stored and st.rerun()
\* ends this run.
ButtonClick ==
    /\ pc = "buttons"
    /\ clicked # Absent
    /\ example_prompt' = clicked
    /\ tally' = [tally EXCEPT !.clicks = @ + 1,
                              !.lost = IF example_prompt # Absent
                                       THEN @ + 1 ELSE @]
    /\ pc' = "idle"
    /\ UNCHANGED <<messages, agent, env_api_key, locals, builds, build,
                   run_calls, warning_shown, took, run_start, result, streak,
                   ever_key, ever_built, prev_failed>>
    /\ UNCHANGED loader

\* Lines 92-95 with no button clicked.
NoButtonClick ==
    /\ pc = "buttons"
    /\ clicked = Absent
    /\ pc' = "example"
    /\ UNCHANGED <<session, locals, history>>
    /\ UNCHANGED loader

\* Mutant of HandleExamplePrompt: the del of line 109 is left out.
HandleExamplePromptNoDel ==
    /\ pc = "example"
    /\ example_prompt # Absent
    /\ prompt' = example_prompt
    /\ messages' = AppendMessage(messages, UserMessage(example_prompt))
    /\ took' = example_prompt
    /\ tally' = [tally EXCEPT !.taken = @ + 1]
    /\ pc' = "chat"
    /\ UNCHANGED <<agent, example_prompt, env_api_key, text_input, clicked,
                   typed, builds, build, run_calls, warning_shown, run_start,
                   result, streak, ever_key, ever_built, prev_failed>>
    /\ UNCHANGED loader

\* Lines 107-113.
HandleExamplePrompt ==
    /\ pc = "example"
    /\ example_prompt # Absent
    /\ prompt' = example_prompt
    /\ example_prompt' = Absent
    /\ messages' = AppendMessage(messages, UserMessage(example_prompt))
    /\ took' = example_prompt
    /\ tally' = [tally EXCEPT !.taken = @ + 1]
    /\ pc' = "chat"
    /\ UNCHANGED <<agent, env_api_key, text_input, clicked, typed, builds,
                   build, run_calls, warning_shown, run_start, result, streak,
                   ever_key, ever_built, prev_failed>>
    /\ UNCHANGED loader

\* Line 107 false.
NoExamplePrompt ==
    /\ pc = "example"
    /\ example_prompt = Absent
    /\ pc' = "chat"
    /\ UNCHANGED <<session, locals, history>>
    /\ UNCHANGED loader

\* Line 116 false: the walrus rebinds prompt to the falsy value.
NoChatInput ==
    /\ pc = "chat"
    /\ typed = Absent
    /\ prompt' = typed
    /\ pc' = "idle"
    /\ UNCHANGED <<session, text_input, clicked, typed, history>>
    /\ UNCHANGED loader

\* Lines 116-125: no agent, the warning is shown in the assistant bubble.
ChatInputNoAgent ==
    /\ pc = "chat"
    /\ typed # Absent
    /\ AgentMissing(agent)
    /\ prompt' = typed
    /\ messages' = AppendMessage(messages, UserMessage(typed))
    /\ warning_shown' = TRUE
    /\ pc' = "idle"
    /\ UNCHANGED <<agent, example_prompt, env_api_key, text_input, clicked,
                   typed, builds, build, run_calls, took, run_start, result,
                   streak, ever_key, ever_built, tally, prev_failed>>
    /\ UNCHANGED loader

\* Lines 116-131: agent.run(prompt, stream=False) is called and blocks.
ChatInputRun ==
    /\ pc = "chat"
    /\ typed # Absent
    /\ ~AgentMissing(agent)
    /\ prompt' = typed
    /\ messages' = AppendMessage(messages, UserMessage(typed))
    /\ run_calls' = Append(run_calls, [handle |-> agent, prompt |-> typed])
    /\ tally' = [tally EXCEPT !.calls = @ + 1]
    /\ pc' = "running"
    /\ UNCHANGED <<agent, example_prompt, env_api_key, text_input, clicked,
                   typed, builds, build, warning_shown, took, run_start, result,
                   streak, ever_key, ever_built, prev_failed>>
    /\ UNCHANGED loader

\* Lines 131-137: the call returns a response.
AgentReturn(r) ==
    /\ pc = "running"
    /\ messages' = AppendMessage(messages, AssistantMessage(r))
    /\ result' = [kind |-> "returned", text |-> r]
    /\ pc' = "idle"
    /\ UNCHANGED <<agent, example_prompt, env_api_key, locals, builds, build,
                   run_calls, warning_shown, took, run_start, streak, ever_key,
                   ever_built, tally, prev_failed>>
    /\ UNCHANGED loader

\* Mutant of AgentRaise: the call is made again after it raised.
AgentRaiseRetries(e) ==
    /\ pc = "running"
    /\ run_calls' = Append(run_calls, [handle |-> agent, prompt |-> typed])
    /\ tally' = [tally EXCEPT !.calls = @ + 1]
    /\ UNCHANGED <<session, pc, locals, builds, build, warning_shown, took,
                   run_start, result, streak, ever_key, ever_built,
                   prev_failed>>
    /\ UNCHANGED loader

\* Mutant of AgentRaise: the exception escapes and ends the session.
AgentRaiseEscapes(e) ==
    /\ pc = "running"
    /\ result' = [kind |-> "raised", text |-> e]
    /\ pc' = "crashed"
    /\ UNCHANGED <<session, locals, builds, build, run_calls, warning_shown,
                   took, run_start, streak, ever_key, ever_built, tally,
                   prev_failed>>
    /\ UNCHANGED loader

\* Mutant of AgentRaise: the error message is appended twice.
AgentRaiseTwice(e) ==
    /\ pc = "running"
    /\ messages' = AppendMessage(AppendMessage(messages,
                                               AssistantMessage(ErrorMsg(e))),
                                 AssistantMessage(ErrorMsg(e)))
    /\ result' = [kind |-> "raised", text |-> e]
    /\ pc' = "idle"
    /\ UNCHANGED <<agent, example_prompt, env_api_key, locals, builds, build,
                   run_calls, warning_shown, took, run_start, streak, ever_key,
                   ever_built, tally, prev_failed>>
    /\ UNCHANGED loader

\* Lines 138-141: the call raises e.
AgentRaise(e) ==
    /\ pc = "running"
    /\ messages' = AppendMessage(messages, AssistantMessage(ErrorMsg(e)))
    /\ result' = [kind |-> "raised", text |-> e]
    /\ pc' = "idle"
    /\ UNCHANGED <<agent, example_prompt, env_api_key, locals, builds, build,
                   run_calls, warning_shown, took, run_start, streak, ever_key,
                   ever_built, tally, prev_failed>>
    /\ UNCHANGED loader

Next ==
    \/ \E k \in Keys \cup {""}, c \in example_prompts \cup {Absent},
          t \in Prompts \cup {Absent} : StartRun(k, c, t)
    \/ ConfigNoKey
    \/ ConfigKeep
    \/ ConfigBuildOK
    \/ ConfigBuildFail
    \/ ButtonClick
    \/ NoButtonClick
    \/ HandleExamplePrompt
    \/ NoExamplePrompt
    \/ NoChatInput
    \/ ChatInputNoAgent
    \/ ChatInputRun
    \/ \E r \in Responses : AgentReturn(r)
    \/ \E e \in Errors : AgentRaise(e)

Spec == Init /\ [][Next]_vars

(* ------------------------ the loaders on their own --------------------- *)

RECURSIVE Texts(_)
\* The texts of at most n characters.
Texts(n) ==
    IF n = 0 THEN {<<>>}
    ELSE LET shorter == Texts(n - 1)
         IN  shorter \cup {Append(t, c) : t \in shorter, c \in Chars}

\* The example file of the specification: a comment, a blank line, a line,
\* a line with blanks around it.
CommentedFile ==
    File(<<"#", " ", "c", "o", "m", "m", "e", "n", "t", "\n", "\n",
           "H", "e", "l", "l", "o", "\n",
           " ", " ", "W", "o", "r", "l", "d", " ", " ", "\n">>)

\* The files a loader may meet.
Files == {Missing, CommentedFile} \cup {File(t) : t \in Texts(MaxFileLen)}

\* One of the two files is any of Files, the other is missing.
LoaderInit ==
    /\ SessionInit
    /\ env_api_key = ""
    /\ \/ system_file \in Files /\ prompts_file = Missing
       \/ prompts_file \in Files /\ system_file = Missing
    /\ system_prompt = <<>>
    /\ example_list = <<>>
    /\ loaded = {}

\* Line 72: system_prompt = load_system_prompt()
LoadSystemPrompt ==
    /\ "system" \notin loaded
    /\ system_prompt' = load_system_prompt(system_file)
    /\ loaded' = loaded \cup {"system"}
    /\ UNCHANGED <<session, pc, locals, history, system_file, prompts_file,
                   example_list>>

\* Line 90: example_prompts = load_example_prompts()
LoadExamplePrompts ==
    /\ "examples" \notin loaded
    /\ example_list' = load_example_prompts(prompts_file)
    /\ loaded' = loaded \cup {"examples"}
    /\ UNCHANGED <<session, pc, locals, history, system_file, prompts_file,
                   system_prompt>>

LoaderNext == LoadSystemPrompt \/ LoadExamplePrompts

LoaderSpec == LoaderInit /\ [][LoaderNext]_vars

(* ------------------------------ claims -------------------------------- *)

IsPrefix(s, t) == Len(s) <= Len(t) /\ SubSeq(t, 1, Len(s)) = s

\* The sidebar section of the current (or, between runs, the last) run is over.
ConfigDone == pc \notin {"new", "sidebar"}

\* The history when the chat-input section of this run is reached: the
\* history at the start of the run plus the example prompt the run consumed.
TurnStart ==
    run_start.messages
    \o (IF took # Absent THEN <<UserMessage(took)>> ELSE <<>>)

\* C1: every step leaves the previous messages list a prefix of the new one:
\* the list is append-only, its length never decreases, and no message in it
\* is reordered, altered or deleted.
C1_AppendOnly == [][IsPrefix(messages, messages')]_vars

\* C1 witness: a history that grew by an example click, a typed submission
\* and an agent failure.
C1_Witness ==
    /\ pc = "idle"
    /\ Len(messages) >= 3
    /\ took # Absent
    /\ typed # Absent
    /\ result.kind = "raised"

\* C2: while no run has supplied a non-empty key the handle is None and
\* agent.run is not called; and agent.run is never called on a None handle.
C2_NoAgentNoCall ==
    /\ ~ever_key => agent = None /\ run_calls = <<>> /\ pc # "running"
    /\ \A i \in 1..Len(run_calls) : run_calls[i].handle # None
    /\ pc = "running" => agent # None

\* C2 witness: prompts were typed and an example was selected in a session
\* that never had a key.
C2_Witness ==
    /\ ~ever_key
    /\ pc = "idle"
    /\ typed # Absent
    /\ took # Absent
    /\ Len(messages) >= 3

\* C3: a run whose typed prompt met no agent ends with the history extended
\* by the user Message and an assistant Message holding the missing-key
\* warning, and without a call of agent.run.
C3_WarningAppended ==
    (pc = "idle" /\ typed # Absent /\ agent = None) =>
        /\ messages = TurnStart \o <<UserMessage(typed),
                                     AssistantMessage(MissingKeyWarning)>>
        /\ run_calls = <<>>

\* What a typed submission of p does to a history msgs with handle ag: the
\* possible resulting histories with the number of agent.run calls.
TypedOutcomes(msgs, ag, p) ==
    IF AgentMissing(ag)
    THEN {[messages |-> AppendMessage(msgs, UserMessage(p)), calls |-> 0]}
    ELSE {[messages |-> AppendMessage(AppendMessage(msgs, UserMessage(p)),
                                      AssistantMessage(c)),
           calls |-> 1] :
          c \in Responses \cup {ErrorMsg(e) : e \in Errors}}

\* C4: a run that consumed a selected example prompt (and no typed text) ends
\* with a history and a number of agent.run calls that a typed submission of
\* the same text can end with.
C4_ExampleLikeTyped ==
    (pc = "idle" /\ took # Absent /\ typed = Absent) =>
        [messages |-> messages, calls |-> Len(run_calls)]
            \in TypedOutcomes(run_start.messages, agent, took)

\* C5: when the agent.run call of a typed-prompt turn raised e, the turn
\* added exactly two messages: the user Message with the prompt, then one
\* assistant Message whose content is the error prefix followed by str(e).
C5_ErrorTurn ==
    (pc = "idle" /\ result.kind = "raised") =>
        /\ typed # Absent
        /\ messages = TurnStart \o <<UserMessage(typed),
                                     AssistantMessage(ErrorPrefix \o result.text)>>
        /\ Len(messages) = Len(TurnStart) + 2
        /\ IsPrefix(ErrorPrefix, messages[Len(messages)].content)
        /\ Len(run_calls) = 1

\* C5 witness: a typed prompt whose agent.run call raised a non-empty text.
C5_Witness ==
    /\ pc = "idle"
    /\ result = [kind |-> "raised", text |-> <<"t">>]
    /\ typed = <<"b">>

\* C6: in consecutive runs that supply one non-empty key, if the first of
\* them constructed the agent successfully, the later ones construct
\* nothing and hold the identical handle: one constructor call in all.
C6_Reuse ==
    (ConfigDone /\ api_key # "" /\ streak.first_ok) =>
        /\ streak.builds = 1
        /\ agent = streak.handle
        /\ ~streak.first => build = "none" /\ agent = run_start.agent
                            /\ builds = run_start.builds

\* C6 witness: a second run with the key the first run built the agent with.
C6_Witness ==
    /\ pc = "idle"
    /\ api_key # ""
    /\ streak.first_ok
    /\ ~streak.first
    /\ Len(run_calls) = 1

\* The key of this run is non-empty and differs from the key in the handle
\* held when the run started, or no handle was held.
KeyChanged ==
    /\ api_key # ""
    /\ IF run_start.agent = None THEN TRUE
       ELSE run_start.agent.api_key # api_key

\* C7 as claimed: when the key changed, the agent is constructed exactly once
\* in the run, and the agent.run call of the run is made on a handle whose
\* key is the key supplied in the run.
C7_CallOnNewKey ==
    (ConfigDone /\ KeyChanged) =>
        /\ builds = run_start.builds + 1
        /\ \A i \in 1..Len(run_calls) :
              /\ run_calls[i].handle # None
              /\ run_calls[i].handle.api_key = api_key

\* C7 amended: when the key changed, the constructor is called exactly once
\* in the run, before any agent.run call; if the construction succeeded the
\* call is made on the new handle, whose key is the key supplied in the run;
\* if it raised, a call is made only on the handle held before.
C7_RebuildOnce ==
    (ConfigDone /\ KeyChanged) =>
        /\ builds = run_start.builds + 1
        /\ build \in {"ok", "failed"}
        /\ build = "ok" =>
              /\ agent = NewAgent(api_key, builds)
              /\ agent # run_start.agent
              /\ \A i \in 1..Len(run_calls) : run_calls[i].handle = agent
        /\ build = "failed" =>
              /\ agent = run_start.agent
              /\ \A i \in 1..Len(run_calls) :
                    run_calls[i].handle = run_start.agent

\* C7 witness: a changed key, a successful rebuild and a call on the new
\* handle.
C7_Witness ==
    /\ pc = "idle"
    /\ KeyChanged
    /\ run_start.agent # None
    /\ build = "ok"
    /\ Len(run_calls) = 1

\* C8: a construction that raised leaves the handle what it was when the run
\* started and the history untouched, and the run goes on to the buttons.
C8_FailedBuildKeeps ==
    build = "failed" =>
        /\ agent = run_start.agent
        /\ pc # "sidebar"
        /\ pc = "buttons" => messages = run_start.messages
        /\ IsPrefix(run_start.messages, messages)

\* C8 witness: a failed reconstruction with a handle held before, in a run
\* that went on to process a typed prompt.
C8_Witness ==
    /\ build = "failed"
    /\ run_start.agent # None
    /\ pc = "idle"
    /\ Len(run_calls) = 1

\* C9 as claimed: after the configuration step the handle is non-null if and
\* only if a non-empty key has been supplied.
C9_AgentIffKey == ConfigDone => (agent # None <=> ever_key)

\* C9 amended: after the configuration step the handle is non-null if and
\* only if a construction has succeeded, which takes a supplied non-empty
\* key; a run with a non-empty key and no handle is one whose construction
\* raised.
C9_AgentIffBuilt ==
    ConfigDone =>
        /\ agent # None <=> ever_built
        /\ ever_built => ever_key
        /\ (api_key # "" /\ agent = None) => build = "failed"

\* C9 witness: a handle kept by a run that supplied an empty key.
C9_Witness ==
    /\ ConfigDone
    /\ agent # None
    /\ api_key = ""
    /\ pc = "idle"

\* C10: in a run with both a pending example prompt and a typed text, the
\* example is consumed first: when the chat input is looked at the slot is
\* already cleared and the example's user Message appended, and the typed
\* text's user Message comes right after it.
C10_ExampleFirst ==
    /\ pc \in {"chat", "running"} => example_prompt = Absent
    /\ (pc = "chat" /\ took # Absent) =>
          messages = run_start.messages \o <<UserMessage(took)>>
    /\ (pc \in {"running", "idle"} /\ took # Absent /\ typed # Absent) =>
          /\ example_prompt = Absent
          /\ IsPrefix(run_start.messages
                      \o <<UserMessage(took), UserMessage(typed)>>, messages)

\* C10 witness: a run that consumed a pending example and a different typed
\* text.
C10_Witness ==
    /\ pc = "idle"
    /\ took = <<"c">>
    /\ typed = <<"b">>
    /\ Len(messages) = Len(run_start.messages) + 3

\* The number of user Messages in a history.
UserCount(msgs) == Cardinality({i \in 1..Len(msgs) : msgs[i].role = "user"})

\* C11: a run makes at most one agent.run call, a call that raised ends the
\* turn without another call, and over the session the calls never
\* outnumber the user Messages of the history.
C11_AtMostOneCall ==
    /\ Len(run_calls) <= 1
    /\ result.kind = "raised" => pc = "idle" /\ Len(run_calls) = 1
    /\ tally.calls <= UserCount(messages)

\* C11 witness: a second turn whose call raised, after a first turn with a
\* call.
C11_Witness ==
    /\ pc = "idle"
    /\ result.kind = "raised"
    /\ tally.calls = 2

\* A step of a run under way.
RunStep ==
    \/ ConfigNoKey \/ ConfigKeep \/ ConfigBuildOK \/ ConfigBuildFail
    \/ ButtonClick \/ NoButtonClick
    \/ HandleExamplePrompt \/ NoExamplePrompt
    \/ NoChatInput \/ ChatInputNoAgent \/ ChatInputRun
    \/ \E r \in Responses : AgentReturn(r)
    \/ \E e \in Errors : AgentRaise(e)

\* The session state has the shape the script gives it.
WellFormed ==
    /\ \A i \in 1..Len(messages) :
          /\ DOMAIN messages[i] = {"role", "content"}
          /\ messages[i].role \in {"user", "assistant"}
    /\ agent = None \/ (DOMAIN agent = {"api_key", "id"} /\ agent.api_key \in Keys)
    /\ example_prompt \in example_prompts \cup {Absent}

\* C12: no failure ends the session.  A run under way can always take its
\* next step, also after a construction or a call raised; the session state
\* stays well-formed; a run after a failed run can start (within the
\* bounds); and a prompt typed in the run after a failed run gets a normal
\* turn: its user Message is appended and the agent step is taken (the
\* warning without a handle, else one call and its assistant Message).
C12_SessionUsable ==
    /\ WellFormed
    /\ pc \in {"new", "idle", "sidebar", "buttons", "example", "chat", "running"}
    /\ pc \notin {"new", "idle"} => ENABLED RunStep
    /\ (pc = "idle" /\ (build = "failed" \/ result.kind = "raised")
        /\ builds < MaxBuilds /\ Len(messages) + 3 <= MaxMessages) =>
          ENABLED StartRun(text_input, Absent, <<"a">>)
    /\ (pc = "idle" /\ prev_failed /\ typed # Absent) =>
          /\ IsPrefix(TurnStart \o <<UserMessage(typed)>>, messages)
          /\ IF agent = None
             THEN warning_shown /\ run_calls = <<>>
                  /\ Len(messages) = Len(TurnStart) + 1
             ELSE /\ Len(run_calls) = 1
                  /\ run_calls[1].prompt = typed
                  /\ result.kind \in {"returned", "raised"}
                  /\ Len(messages) = Len(TurnStart) + 2
                  /\ messages[Len(messages)].role = "assistant"

\* C12 witness: a run whose call raised, followed by a run whose call
\* returned.
C12_Witness ==
    /\ pc = "idle"
    /\ prev_failed
    /\ result.kind = "returned"
    /\ Len(messages) = 4

\* C15: every assistant Message comes right after a user Message; the
\* assistant Message a run appends follows the user Message the same run
\* appended, whose content is the prompt passed to the agent.run call of
\* that run; the history neither starts with an assistant Message nor holds
\* two in a row.
C15_AssistantAfterUser ==
    /\ \A i \in 1..Len(messages) :
          messages[i].role = "assistant" =>
              i > 1 /\ messages[i - 1].role = "user"
    /\ (pc = "idle" /\ result.kind # "none") =>
          /\ Len(run_calls) = 1
          /\ Len(messages) >= Len(run_start.messages) + 2
          /\ messages[Len(messages)].role = "assistant"
          /\ messages[Len(messages) - 1] = UserMessage(run_calls[1].prompt)
          /\ UserCount(messages) = UserCount(TurnStart) + 1
          /\ Len(messages) = Len(TurnStart) + 2

\* C15 witness: two assistant Messages, each after its user Message, with a
\* user Message of an example in between.
C15_Witness ==
    /\ pc = "idle"
    /\ Len(messages) = 4
    /\ messages[2].role = "assistant"
    /\ messages[4].role = "assistant"

\* 1 when an example prompt is pending, else 0.
Pending == IF example_prompt # Absent THEN 1 ELSE 0

C17_HandleKept ==
    /\ [][agent # None => agent' # None]_vars
    /\ []((ConfigDone /\ run_start.agent # None
           /\ (api_key = "" \/ build = "failed")) =>
             /\ agent = run_start.agent
             /\ \A i \in 1..Len(run_calls) :
                   run_calls[i].handle = run_start.agent
             /\ (pc \in {"running", "idle"} /\ typed # Absent) =>
                   Len(run_calls) = 1)

\* C17 witness: a prompt typed in a run with an empty key, sent to the
\* handle an earlier run built.
C17_Witness ==
    /\ pc = "idle"
    /\ api_key = ""
    /\ run_start.agent # None
    /\ Len(run_calls) = 1
    /\ run_calls[1].handle = run_start.agent

\* The least and the greatest of a non-empty set of numbers.
Least(S) == CHOOSE i \in S : \A j \in S : i <= j
Greatest(S) == CHOOSE i \in S : \A j \in S : j <= i

\* The k-th smallest position of the set S.
NthOf(S, k) == CHOOSE i \in S : Cardinality({j \in S : j < i}) = k - 1

\* The trimmed lines of the text t that are not empty and do not begin with
\* "#", in the order of the text, read off the positions of t: a line is a
\* longest stretch without a line break, trimmed to run from its first to its
\* last character that is not a blank.
TrimmedLines(t) ==
    LET IsBreak(i) == t[i] \in {"\n", "\r"}
        Starts == {i \in 1..Len(t) : ~IsBreak(i) /\ (i = 1 \/ IsBreak(i - 1))}
        End(i) == Least({j \in i..Len(t) : j = Len(t) \/ IsBreak(j + 1)})
        Ink(i) == {k \in i..End(i) : t[k] \notin {" ", "\t"}}
        Kept == {i \in Starts : Ink(i) # {} /\ t[Least(Ink(i))] # "#"}
    IN  [k \in 1..Cardinality(Kept) |->
            SubSeq(t, Least(Ink(NthOf(Kept, k))), Greatest(Ink(NthOf(Kept, k))))]

\* C13: for a file that exists load_example_prompts returns, in file order,
\* exactly the trimmed lines that are not empty after trimming and do not
\* begin with "#" after trimming; for a missing file it returns the list of
\* the three fallback strings.
C13_TrimmedLines ==
    "examples" \in loaded =>
        IF prompts_file.exists
        THEN example_list = TrimmedLines(prompts_file.text)
        ELSE /\ Len(example_list) = 3
             /\ example_list =
                  << <<"Tell me about a breaking news story happening in Times Square.">>,
                     <<"What's the latest development in NYC's tech scene?">>,
                     <<"Tell me about any upcoming events at Madison Square Garden">> >>

\* C13 witness: the file "# comment\n\nHello\n  World  \n" loaded as the two
\* prompts Hello and World.
C13_Witness ==
    /\ "examples" \in loaded
    /\ prompts_file = CommentedFile
    /\ example_list = << <<"H", "e", "l", "l", "o">>, <<"W", "o", "r", "l", "d">> >>

\* The text t with every line ending read as "\n": a "\n" right after a "\r"
\* is dropped and every "\r" becomes "\n", read off the positions of t.
NewlinesRead(t) ==
    LET Kept == {i \in 1..Len(t) : ~(t[i] = "\n" /\ i > 1 /\ t[i - 1] = "\r")}
    IN  [k \in 1..Cardinality(Kept) |->
            IF t[NthOf(Kept, k)] = "\r" THEN "\n" ELSE t[NthOf(Kept, k)]]

\* C14 as claimed: load_system_prompt returns the content of a file that
\* exists unchanged, and the fallback sentence for a missing file.
C14_Unchanged ==
    "system" \in loaded =>
        system_prompt = IF system_file.exists THEN system_file.text
                        ELSE <<"You are a helpful AI assistant.">>

\* C14 amended: load_system_prompt returns the text of a file that exists
\* with every line ending ("\r\n" or "\r") read as "\n" and nothing else
\* changed, so a text without "\r" unchanged, and the fallback sentence for
\* a missing file.
C14_NewlinesRead ==
    "system" \in loaded =>
        /\ system_prompt = IF system_file.exists
                           THEN NewlinesRead(system_file.text)
                           ELSE <<"You are a helpful AI assistant.">>
        /\ (system_file.exists
            /\ \A i \in 1..Len(system_file.text) : system_file.text[i] # "\r") =>
              system_prompt = system_file.text

\* C14 witness: a text whose blanks and line break come back as they are.
C14_Witness ==
    /\ "system" \in loaded
    /\ system_file = File(<<" ", "a", "\n", " ">>)
    /\ system_prompt = <<" ", "a", "\n", " ">>

====
